---- MODULE Spec2Model ----
(***************************************************************************)
(* Model of the prediction engine and request handler of                   *)
(* StockPredictorApp (src/App.tsx).                                         *)
(*                                                                         *)
(* Numbers.  Every JavaScript `number` of the source is an IEEE-754        *)
(* double.  The model keeps the structure of that type -- NaN, +Infinity,  *)
(* -Infinity and rounded finite values -- with a decimal mantissa of       *)
(* MantDigits significant digits instead of 53 bits:                       *)
(*     [k |-> "fin", m |-> mantissa, e |-> exponent]  =  m * 10^e          *)
(* with |m| of exactly MantDigits digits, or m = 0 /\ e = 0.  Results are  *)
(* rounded toward zero.  The representation is canonical, so equality of   *)
(* two numbers is equality of their values (NaN = NaN, as bit patterns).   *)
(* Zero is unsigned: every divisor of the source is an input close, a      *)
(* length, a constant, or a pivot that passed the magnitude test, so the   *)
(* sign of a computed zero never decides a result.                         *)
(*                                                                         *)
(* Two specifications.  Spec runs improvedPredict, phase by phase, on a    *)
(* bounded set of candle histories.  SpecApp runs handleStockPrediction    *)
(* with fetchStockData over a bounded set of provider replies.  A candle   *)
(* is [date, close]; volume is never read by the code modelled.            *)
(***************************************************************************)
EXTENDS Integers, Sequences, FiniteSets, TLC

\* ------------------------------------------------------------------------
\* number: the JavaScript double
\* ------------------------------------------------------------------------
MantDigits == 8
HalfBase == 10000
ExpMax == 308
ExpMin == -324

NaN == [k |-> "nan", m |-> 0, e |-> 0]
PosInf == [k |-> "inf", m |-> 1, e |-> 0]
NegInf == [k |-> "inf", m |-> -1, e |-> 0]
Zero == [k |-> "fin", m |-> 0, e |-> 0]

IsNaN(a) == a.k = "nan"
IsInf(a) == a.k = "inf"
IsFin(a) == a.k = "fin"
IsZero(a) == a.k = "fin" /\ a.m = 0

IAbs(i) == IF i < 0 THEN -i ELSE i
ISign(i) == IF i < 0 THEN -1 ELSE 1
\* integer quotient truncated toward zero
Quot(i, d) == ISign(i) * (IAbs(i) \div d)
Pow10(d) == <<1, 10, 100, 1000, 10000, 100000, 1000000, 10000000, 100000000,
              1000000000>>[d + 1]
Inf(sign) == IF sign < 0 THEN NegInf ELSE PosInf

\* the number of decimal digits of x > 0
Digits(x) ==
  IF x < 10 THEN 1 ELSE IF x < 100 THEN 2 ELSE IF x < 1000 THEN 3
  ELSE IF x < 10000 THEN 4 ELSE IF x < 100000 THEN 5
  ELSE IF x < 1000000 THEN 6 ELSE IF x < 10000000 THEN 7
  ELSE IF x < 100000000 THEN 8 ELSE IF x < 1000000000 THEN 9 ELSE 10

\* m * 10^e, m of d digits, cut or padded to MantDigits digits
Scaled(m, e, d) ==
  IF e + d - 1 > ExpMax THEN Inf(m)
  ELSE IF e + d - 1 < ExpMin THEN Zero
  ELSE [k |-> "fin",
        m |-> IF d > MantDigits THEN Quot(m, Pow10(d - MantDigits))
              ELSE m * Pow10(MantDigits - d),
        e |-> e + d - MantDigits]

\* The double nearest (toward zero) to m * 10^e.
Norm(m, e) == IF m = 0 THEN Zero ELSE Scaled(m, e, Digits(IAbs(m)))

Num(i) == Norm(i, 0)
Dec(m, e) == Norm(m, e)
One == Num(1)
Hundred == Num(100)

Neg(a) == IF IsNaN(a) THEN NaN ELSE [a EXCEPT !.m = -a.m]
Abs(a) == IF IsNaN(a) THEN NaN ELSE [a EXCEPT !.m = IAbs(a.m)]

AddFin(a, b) ==
  IF a.m = 0 THEN b
  ELSE IF b.m = 0 THEN a
  ELSE LET hi == IF a.e >= b.e THEN a ELSE b
           lo == IF a.e >= b.e THEN b ELSE a
           d  == hi.e - lo.e
       IN  IF d > MantDigits THEN hi
           ELSE Norm(hi.m * 10 + Quot(lo.m * 10, Pow10(d)), hi.e - 1)

Add(a, b) ==
  IF IsNaN(a) \/ IsNaN(b) THEN NaN
  ELSE IF IsInf(a) THEN (IF IsInf(b) /\ a.m # b.m THEN NaN ELSE a)
  ELSE IF IsInf(b) THEN b
  ELSE AddFin(a, b)

Sub(a, b) == Add(a, Neg(b))

MulFin(a, b) ==
  LET x  == IAbs(a.m)
      y  == IAbs(b.m)
      x1 == x \div HalfBase
      x0 == x % HalfBase
      y1 == y \div HalfBase
      y0 == y % HalfBase
      t  == x1 * y1 + (x1 * y0 + x0 * y1 + (x0 * y0) \div HalfBase) \div HalfBase
  IN  Norm(ISign(a.m) * ISign(b.m) * t, a.e + b.e + MantDigits)

Mul(a, b) ==
  IF IsNaN(a) \/ IsNaN(b) THEN NaN
  ELSE IF IsInf(a) \/ IsInf(b)
       THEN (IF IsZero(a) \/ IsZero(b) THEN NaN ELSE Inf(ISign(a.m) * ISign(b.m)))
  ELSE IF a.m = 0 \/ b.m = 0 THEN Zero
  ELSE MulFin(a, b)

RECURSIVE LongDiv(_, _, _, _)
LongDiv(r, d, q, digits) ==
  IF digits = 0 THEN q
  ELSE LongDiv((r * 10) % d, d, q * 10 + (r * 10) \div d, digits - 1)

DivFin(a, b) ==
  LET x == IAbs(a.m)
      y == IAbs(b.m)
      q == LongDiv(x % y, y, x \div y, MantDigits)
  IN  Norm(ISign(a.m) * ISign(b.m) * q, a.e - b.e - MantDigits)

Div(a, b) ==
  IF IsNaN(a) \/ IsNaN(b) THEN NaN
  ELSE IF IsInf(a) THEN (IF IsInf(b) THEN NaN ELSE Inf(ISign(a.m) * ISign(b.m)))
  ELSE IF IsInf(b) THEN Zero
  ELSE IF b.m = 0 THEN (IF a.m = 0 THEN NaN ELSE Inf(ISign(a.m)))
  ELSE IF a.m = 0 THEN Zero
  ELSE DivFin(a, b)

\* a < b; false when either is NaN
Lt(a, b) ==
  IF IsNaN(a) \/ IsNaN(b) THEN FALSE
  ELSE IF a = b THEN FALSE
  ELSE IF IsInf(a) THEN a.m < 0
  ELSE IF IsInf(b) THEN b.m > 0
  ELSE AddFin(a, Neg(b)).m < 0

Gt(a, b) == Lt(b, a)

\* Math.max / Math.min: NaN when either argument is NaN
MathMax(a, b) == IF IsNaN(a) \/ IsNaN(b) THEN NaN ELSE IF Lt(a, b) THEN b ELSE a
MathMin(a, b) == IF IsNaN(a) \/ IsNaN(b) THEN NaN ELSE IF Lt(b, a) THEN b ELSE a

\* a number is truthy unless it is 0 or NaN
Truthy(x) == ~(IsNaN(x) \/ IsZero(x))
\* x || d : d when x is falsy
OrElse(x, d) == IF Truthy(x) THEN x ELSE d
\* x ?? d : d only when x is null or undefined; a number is neither
Coalesce(x, d) == x

RECURSIVE ISqrt(_, _, _)
ISqrt(n, lo, hi) ==
  IF lo >= hi THEN lo
  ELSE LET mid == (lo + hi + 1) \div 2
       IN  IF mid * mid <= n THEN ISqrt(n, mid, hi) ELSE ISqrt(n, lo, mid - 1)

\* one Newton step from the estimate x0 of the root of a
Newton(a, x0) == Div(Add(x0, Div(a, x0)), Num(2))

\* Math.sqrt: integer root of the mantissa, then one Newton step
MathSqrt(a) ==
  IF IsNaN(a) THEN NaN
  ELSE IF IsInf(a) THEN (IF a.m < 0 THEN NaN ELSE a)
  ELSE IF a.m < 0 THEN NaN
  ELSE IF a.m = 0 THEN Zero
  ELSE LET odd == (a.e % 2) # 0
           mm  == IF odd THEN a.m * 10 ELSE a.m
           ee  == IF odd THEN a.e - 1 ELSE a.e
       IN  Newton(a, Norm(ISqrt(mm, 0, 31622), ee \div 2))

\* ------------------------------------------------------------------------
\* Arrays are sequences; the source's index i is position i + 1.
\* ------------------------------------------------------------------------
\* An array built by a constructor [i \in 1..n |-> e] is a function that TLC
\* evaluates element by element at every use; Arr makes it the sequence of its
\* values, evaluated once.
Arr(f) == f \o <<>>

\* arr.slice(from, to)
Slice(arr, from, to) ==
  LET lo == IF from < 0 THEN 0 ELSE from
      hi == IF to > Len(arr) THEN Len(arr) ELSE to
  IN  IF lo >= hi THEN <<>> ELSE SubSeq(arr, lo + 1, hi)

\* arr.slice(from)
SliceFrom(arr, from) == Slice(arr, from, Len(arr))

\* TLC evaluates an operator's arguments on demand.  A loop's accumulator is
\* evaluated at every iteration, as the source does, by asking Ready of it.
Ready(v) == v = v

\* arr.reduce((a, b) => a + b, 0), from position pos on
RECURSIVE SumAcc(_, _, _)
SumAcc(arr, pos, acc) ==
  IF Ready(acc) /\ pos > Len(arr) THEN acc
  ELSE SumAcc(arr, pos + 1, Add(acc, arr[pos]))

Sum(arr) == SumAcc(arr, 1, Zero)

\* ---- Feature helpers (App.tsx 75-96) ----
sma(arr, period) ==
  IF Len(arr) < period THEN NaN
  ELSE Div(Sum(SliceFrom(arr, Len(arr) - period)), Num(period))

RECURSIVE emaLoop(_, _, _, _)
emaLoop(arr, pos, k, prev) ==
  IF Ready(prev) /\ pos > Len(arr) THEN prev
  ELSE emaLoop(arr, pos + 1, k, Add(Mul(arr[pos], k), Mul(prev, Sub(One, k))))

ema(arr, period) ==
  IF Len(arr) = 0 THEN NaN
  ELSE emaLoop(arr, 2, Div(Num(2), Num(period + 1)), arr[1])

RECURSIVE SqDevAcc(_, _, _, _)
SqDevAcc(arr, pos, mean, acc) ==
  IF Ready(acc) /\ pos > Len(arr) THEN acc
  ELSE SqDevAcc(arr, pos + 1, mean,
                Add(acc, Mul(Sub(arr[pos], mean), Sub(arr[pos], mean))))

stddev(arr) ==
  IF Len(arr) = 0 THEN NaN
  ELSE LET mean     == Div(Sum(arr), Num(Len(arr)))
           variance == Div(SqDevAcc(arr, 1, mean, Zero), Num(Len(arr)))
       IN  MathSqrt(variance)

\* ---- Matrix helpers (App.tsx 98-126) ----
transpose(m) == Arr([i \in 1..Len(m[1]) |-> Arr([r \in 1..Len(m) |-> m[r][i]])])

RECURSIVE DotAcc(_, _, _, _, _, _)
\* out[i][j] += A[i][k] * B[k][j] for k = 0 .. m-1, out[i][j] starting at 0
DotAcc(A, B, i, j, k, acc) ==
  IF Ready(acc) /\ k > Len(B) THEN acc
  ELSE DotAcc(A, B, i, j, k + 1, Add(acc, Mul(A[i][k], B[k][j])))

matMul(A, B) ==
  Arr([i \in 1..Len(A) |-> Arr([j \in 1..Len(B[1]) |-> DotAcc(A, B, i, j, 1, Zero)])])

Identity(n) == Arr([i \in 1..n |-> Arr([j \in 1..n |-> IF i = j THEN One ELSE Zero])])

\* null / a missing result
Null == <<>>

PivotEps == Dec(1, -12)

\* the row search of line 114, from row r on
RECURSIVE MaxRowFrom(_, _, _, _)
MaxRowFrom(A, i, r, maxRow) ==
  IF r > Len(A) THEN maxRow
  ELSE MaxRowFrom(A, i, r + 1,
                  IF Gt(Abs(A[r][i]), Abs(A[maxRow][i])) THEN r ELSE maxRow)

SwapRows(M, i, j) == [M EXCEPT ![i] = M[j], ![j] = M[i]]

\* lines 119-123 for one column i, the pivot row already swapped into place
Eliminate(M, A, i, pivot) ==
  LET n    == Len(A)
      rowI == Arr([c \in 1..n |-> Div(M[i][c], pivot)])
  IN  Arr([r \in 1..n |->
         IF r = i THEN rowI
         ELSE Arr([c \in 1..n |-> Sub(M[r][c], Mul(A[r][i], rowI[c]))])])

\* lines 112-124, one iteration after another
RECURSIVE GaussJordan(_, _, _)

\* lines 117-123, the rows already swapped
Reduce(A, I, i, pivot) ==
  IF Lt(Abs(pivot), PivotEps) THEN Null
  ELSE GaussJordan(Eliminate(A, A, i, pivot), Eliminate(I, A, i, pivot), i + 1)

\* lines 115-117
Pivot(A, I, i, maxRow) ==
  Reduce(SwapRows(A, i, maxRow), SwapRows(I, i, maxRow), i, A[maxRow][i])

GaussJordan(A, I, i) ==
  IF Ready(A) /\ Ready(I) /\ i > Len(A) THEN I
  ELSE Pivot(A, I, i, MaxRowFrom(A, i, i + 1, i))

invertMatrix(m) == GaussJordan(m, Identity(Len(m)), 1)

AddRidge(XtX, lambda) ==
  Arr([i \in 1..Len(XtX) |-> Arr([j \in 1..Len(XtX) |->
     IF i = j THEN Add(XtX[i][j], lambda) ELSE XtX[i][j]])])

\* betaMat.map(r => r[0])
FirstColumn(betaMat) == Arr([r \in 1..Len(betaMat) |-> betaMat[r][1]])

\* lines 135-138
RidgeSolve(Xt, y, XtXinv) ==
  IF XtXinv = Null THEN Null
  ELSE FirstColumn(matMul(XtXinv,
                          matMul(Xt, Arr([i \in 1..Len(y) |-> <<y[i]>>]))))

\* lines 131-134
RidgeFit(Xt, X, y, lambda) ==
  RidgeSolve(Xt, y, invertMatrix(AddRidge(matMul(Xt, X), lambda)))

linearRidge(X, y, lambda) == RidgeFit(transpose(X), X, y, lambda)


\* ------------------------------------------------------------------------
\* predict (App.tsx 380-393): trend extrapolation
\* ------------------------------------------------------------------------
\* ((b - a) / a) * 100
PctChange(a, b) == Mul(Div(Sub(b, a), a), Hundred)

\* lines 383-386 and 150-151: the percent change of every value from its
\* predecessor
PctChanges(values) ==
  Arr([i \in 1..(Len(values) - 1) |-> PctChange(values[i], values[i + 1])])

\* lines 388-391: projection[i + 1] = projection[i] * (1 + avg / 100)
RECURSIVE Compound(_, _, _)
Compound(projection, avg, i) ==
  IF Ready(projection) /\ i >= 5 THEN projection
  ELSE Compound(Append(projection,
                       Mul(projection[i + 1], Add(One, Div(avg, Hundred)))),
                avg, i + 1)

\* line 386: pct.length ? pct.reduce((a, b) => a + b, 0) / pct.length : 0
Average(pct) == IF Len(pct) # 0 THEN Div(Sum(pct), Num(Len(pct))) ELSE Zero

\* line 392
Projected(projection) ==
  [nextPrice |-> projection[Len(projection)],
   projectionLine |-> SliceFrom(projection, 1)]

\* line 392 without the slice(1)
WithSeed(projection) ==
  [nextPrice |-> projection[Len(projection)],
   projectionLine |-> projection]

\* predict returning the whole array of line 387, seed included, where
\* line 392 returns projection.slice(1)
predictWithSeed(values) ==
  IF Len(values) < 2
  THEN [nextPrice |-> IF Len(values) = 0 THEN Zero ELSE values[Len(values)],
        projectionLine |-> <<>>]
  ELSE WithSeed(Compound(<<values[Len(values)]>>, Average(PctChanges(values)), 0))

predict(values) ==
  IF Len(values) < 2
  THEN [nextPrice |-> IF Len(values) = 0 THEN Zero ELSE values[Len(values)],
        projectionLine |-> <<>>]
  ELSE Projected(Compound(<<values[Len(values)]>>, Average(PctChanges(values)), 0))

\* ------------------------------------------------------------------------
\* improvedPredict (App.tsx 141-272)
\* ------------------------------------------------------------------------
MinHistory == 30
FirstCutoff == 20
FirstSplit == 30
SplitStep == 3
Horizon == 5
Lambda == Dec(1, -2)
ShortConfidence == Dec(2, -1)
SingularConfidence == Dec(1, -1)
MapeThreshold == Dec(1, -1)
BacktestWeight == Dec(8, -1)
FitWeight == Dec(2, -1)

\* candles.map(c => c.close)
Closes(cs) == Arr([i \in 1..Len(cs) |-> cs[i].close])

\* the value at the source's index i (0-based)
At(arr, i) == arr[i + 1]
Last(arr) == arr[Len(arr)]

\* a training row whose window is closes.slice(0, i + 2), one day past the
\* cutoff, where line 157 takes closes.slice(0, i + 1)
TrainRowPeeking(closes, returns, i) ==
  LET windowCloses == Slice(closes, 0, i + 2)
      r == At(returns, i - 1)
  IN  << One,
         Coalesce(r, Zero),
         Coalesce(sma(windowCloses, 5), Zero),
         Coalesce(sma(windowCloses, 20), Zero),
         Coalesce(ema(windowCloses, 12), Zero),
         Coalesce(ema(windowCloses, 26), Zero),
         Coalesce(stddev(Slice(returns, IF i - 19 > 0 THEN i - 19 ELSE 0, i)), Zero),
         OrElse(Sub(Last(windowCloses), OrElse(sma(windowCloses, 20), Zero)), Zero) >>

\* lines 157-168: the training row for cutoff i
TrainRow(closes, returns, i) ==
  LET windowCloses == Slice(closes, 0, i + 1)
      r == At(returns, i - 1)
  IN  << One,
         Coalesce(r, Zero),
         Coalesce(sma(windowCloses, 5), Zero),
         Coalesce(sma(windowCloses, 20), Zero),
         Coalesce(ema(windowCloses, 12), Zero),
         Coalesce(ema(windowCloses, 26), Zero),
         Coalesce(stddev(Slice(returns, IF i - 19 > 0 THEN i - 19 ELSE 0, i)), Zero),
         OrElse(Sub(Last(windowCloses), OrElse(sma(windowCloses, 20), Zero)), Zero) >>

\* line 156: for (let i = 20; i < closes.length - 1; i++)
Cutoffs(closes) == FirstCutoff..(Len(closes) - 2)

\* lines 154-171
Features(closes, returns) ==
  Arr([k \in 1..(Len(closes) - 1 - FirstCutoff) |->
         TrainRow(closes, returns, FirstCutoff + k - 1)])

Targets(closes, returns) ==
  Arr([k \in 1..(Len(closes) - 1 - FirstCutoff) |->
         At(returns, FirstCutoff + k - 1)])

\* f.reduce((acc, v, j) => acc + v * beta[j], 0)
RECURSIVE DotLoop(_, _, _, _)
DotLoop(f, beta, j, acc) ==
  IF Ready(acc) /\ j > Len(f) THEN acc
  ELSE DotLoop(f, beta, j + 1, Add(acc, Mul(f[j], beta[j])))

Dot(f, beta) == DotLoop(f, beta, 1, Zero)

\* targets.reduce((a, b, i) => a + (b - ref[i]) * (b - ref[i]), 0)
RECURSIVE SqErrAcc(_, _, _, _)
SqErrAcc(targets, ref, pos, acc) ==
  IF Ready(acc) /\ pos > Len(targets) THEN acc
  ELSE SqErrAcc(targets, ref, pos + 1,
                Add(acc, Mul(Sub(targets[pos], ref[pos]),
                             Sub(targets[pos], ref[pos]))))

\* lines 181-185
RSquared(features, targets, beta) ==
  LET preds == Arr([k \in 1..Len(features) |-> Dot(features[k], beta)])
      meanT == Div(Sum(targets), Num(Len(targets)))
      ssRes == SqErrAcc(targets, preds, 1, Zero)
      ssTot == SqErrAcc(targets, Arr([k \in 1..Len(targets) |-> meanT]), 1, Zero)
  IN  Sub(One, Div(ssRes, OrElse(ssTot, One)))

\* lines 196-210: a backtest training row for cutoff i
BacktestRow(closes, i) ==
  LET windowCloses == Slice(closes, 0, i + 1)
      r == PctChange(At(closes, i - 1), At(closes, i))
      window == Slice(closes, IF i - 19 > 0 THEN i - 19 ELSE 0, i)
  IN  << One,
         Coalesce(r, Zero),
         OrElse(sma(windowCloses, 5), Zero),
         OrElse(sma(windowCloses, 20), Zero),
         OrElse(ema(windowCloses, 12), Zero),
         OrElse(ema(windowCloses, 26), Zero),
         OrElse(stddev(Arr([k \in 1..Len(window) |-> Zero])), Zero),
         OrElse(Sub(Last(windowCloses), OrElse(sma(windowCloses, 20), Zero)), Zero) >>

\* line 212
BacktestTarget(closes, i) == PctChange(At(closes, i), At(closes, i + 1))

\* lines 218-229: the feature row for day `split`
BacktestNext(closes, split) ==
  LET windowCloses == Slice(closes, 0, split + 1)
      lastRet == PctChange(windowCloses[Len(windowCloses) - 1], Last(windowCloses))
  IN  << One,
         OrElse(lastRet, Zero),
         OrElse(sma(windowCloses, 5), Zero),
         OrElse(sma(windowCloses, 20), Zero),
         OrElse(ema(windowCloses, 12), Zero),
         OrElse(ema(windowCloses, 26), Zero),
         OrElse(stddev(Slice(closes, IF split - 19 > 0 THEN split - 19 ELSE 0, split)), Zero),
         OrElse(Sub(Last(windowCloses), OrElse(sma(windowCloses, 20), Zero)), Zero) >>

\* lines 193-216: the refit of one split; Null when the split is skipped
Refit(trFeatures, trTargets) ==
  IF Len(trFeatures) < 5 THEN Null
  ELSE linearRidge(trFeatures, trTargets, Lambda)

\* lines 193-213: for (let i = 20; i < split; i++) trFeatures.push(f)
SplitRows(closes, split) ==
  Arr([k \in 1..(split - FirstCutoff) |->
         BacktestRow(closes, FirstCutoff + k - 1)])

\* lines 194-213: trTargets
SplitTargets(closes, split) ==
  Arr([k \in 1..(split - FirstCutoff) |->
         BacktestTarget(closes, FirstCutoff + k - 1)])

SplitFit(closes, split) ==
  Refit(SplitRows(closes, split), SplitTargets(closes, split))

\* lines 230-231
SplitPrediction(closes, split, betaT) ==
  LET predRet == Dot(BacktestNext(closes, split), betaT)
  IN  Mul(At(closes, split), Add(One, Div(predRet, Hundred)))

\* lines 232-235: what the split pushes on errors
SplitErrors(predictedPrice, actualPrice) ==
  IF Truthy(actualPrice) /\ Gt(actualPrice, Zero)
  THEN <<Abs(Div(Sub(predictedPrice, actualPrice), actualPrice))>>
  ELSE <<>>

\* lines 218-235, the refit having succeeded
SplitScore(closes, split, trFeatures, trTargets, betaT, predictedPrice) ==
  [split |-> split, trFeatures |-> trFeatures, trTargets |-> trTargets,
   betaT |-> betaT, fNext |-> BacktestNext(closes, split),
   predictedPrice |-> <<predictedPrice>>,
   errors |-> SplitErrors(predictedPrice, At(closes, split + 1))]

\* lines 216-235: `continue` when the split is skipped, no row fNext built
SplitOutcome(closes, split, trFeatures, trTargets, betaT) ==
  IF betaT = Null
  THEN [split |-> split, trFeatures |-> trFeatures, trTargets |-> trTargets,
        betaT |-> Null, fNext |-> <<>>, predictedPrice |-> Null,
        errors |-> <<>>]
  ELSE SplitScore(closes, split, trFeatures, trTargets, betaT,
                  SplitPrediction(closes, split, betaT))

\* lines 214-216
SplitTrained(closes, split, trFeatures, trTargets) ==
  SplitOutcome(closes, split, trFeatures, trTargets,
               Refit(trFeatures, trTargets))

\* lines 192-235: one iteration of the backtest loop: the training set, the
\* refit, the row fNext and the predicted price when the refit succeeded,
\* and the errors it pushed (none or one)
SplitEval(closes, split) ==
  SplitTrained(closes, split, SplitRows(closes, split),
               SplitTargets(closes, split))

\* a backtest loop that leaves at the first skipped split (`break` where
\* lines 214 and 216 have `continue`)
RECURSIVE BacktestLoopBreaking(_, _, _)

BacktestBreak(closes, split, splits, rec) ==
  IF rec.betaT = Null THEN splits
  ELSE BacktestLoopBreaking(closes, split + SplitStep, Append(splits, rec))

BacktestLoopBreaking(closes, split, splits) ==
  IF Ready(splits) /\ ~(split < Len(closes) - 1) THEN splits
  ELSE BacktestBreak(closes, split, splits, SplitEval(closes, split))

\* line 191: for (let split = 30; split < n - 1; split += step)
RECURSIVE BacktestLoop(_, _, _)
BacktestLoop(closes, split, splits) ==
  IF Ready(splits) /\ ~(split < Len(closes) - 1) THEN splits
  ELSE BacktestLoop(closes, split + SplitStep,
                    Append(splits, SplitEval(closes, split)))

Backtest(closes) == BacktestLoop(closes, FirstSplit, <<>>)

\* the array `errors` after the loop: every push, in loop order
RECURSIVE Pushed(_, _, _)
Pushed(splits, pos, errors) ==
  IF Ready(errors) /\ pos > Len(splits) THEN errors
  ELSE Pushed(splits, pos + 1, errors \o splits[pos].errors)

Errors(splits) == Pushed(splits, 1, <<>>)

\* a backtestConf that compares the MAPE with 1 where line 242 divides it by
\* the threshold 0.1
BacktestConfNoThreshold(errors) ==
  IF Len(errors) > 0
  THEN LET mape == Div(Sum(errors), Num(Len(errors)))
       IN  MathMax(Zero, Sub(One, MathMin(One, mape)))
  ELSE Zero

\* lines 238-243
BacktestConf(errors) ==
  IF Len(errors) > 0
  THEN LET mape == Div(Sum(errors), Num(Len(errors)))
       IN  MathMax(Zero, Sub(One, MathMin(One, Div(mape, MapeThreshold))))
  ELSE Zero

\* line 245
FinalConf(backtestConf, r2) ==
  MathMax(Zero, MathMin(One,
    Add(Mul(BacktestWeight, backtestConf),
        Mul(FitWeight, MathMax(Zero, MathMin(One, r2))))))

\* lines 252-261: the feature row of one rollout step
RolloutRow(lastCloses, lastReturns) ==
  << One,
     Coalesce(Last(lastReturns), Zero),
     Coalesce(sma(lastCloses, 5), Zero),
     Coalesce(sma(lastCloses, 20), Zero),
     Coalesce(ema(lastCloses, 12), Zero),
     Coalesce(ema(lastCloses, 26), Zero),
     Coalesce(stddev(SliceFrom(lastReturns,
                IF Len(lastReturns) - 20 > 0 THEN Len(lastReturns) - 20 ELSE 0)), Zero),
     OrElse(Sub(Last(lastCloses), OrElse(sma(lastCloses, 20), Zero)), Zero) >>

\* line 263
NextPrice(lastClose, predReturn) == Mul(lastClose, Add(One, Div(predReturn, Hundred)))

\* lines 251-269; fNext collects the feature row of each step.  The loop
\* ends with the three arrays it pushed on and the rows it built.
RECURSIVE RolloutLoop(_, _, _, _, _, _)

\* lines 264-268
RolloutPush(lastCloses, lastReturns, projection, fNext, beta, step, predReturn, nextPrice) ==
  RolloutLoop(Append(lastCloses, nextPrice), Append(lastReturns, predReturn),
              Append(projection, nextPrice), fNext, beta, step + 1)

\* line 263
RolloutPrice(lastCloses, lastReturns, projection, fNext, beta, step, predReturn) ==
  RolloutPush(lastCloses, lastReturns, projection, fNext, beta, step, predReturn,
              NextPrice(Last(lastCloses), predReturn))

\* lines 252-262
RolloutPredict(lastCloses, lastReturns, projection, fNext, beta, step, row) ==
  RolloutPrice(lastCloses, lastReturns, projection, Append(fNext, row), beta,
               step, Dot(row, beta))

RolloutLoop(lastCloses, lastReturns, projection, fNext, beta, step) ==
  IF /\ Ready(lastCloses) /\ Ready(lastReturns) /\ Ready(projection)
     /\ Ready(fNext) /\ ~(step < Horizon)
  THEN [lastCloses |-> lastCloses, lastReturns |-> lastReturns,
        projection |-> projection, fNext |-> fNext]
  ELSE RolloutPredict(lastCloses, lastReturns, projection, fNext, beta, step,
                      RolloutRow(lastCloses, lastReturns))

\* lines 248-250: lastCloses = closes.slice(), lastReturns = returns.slice()
Rollout(closes, returns, beta) ==
  RolloutLoop(closes, returns, <<>>, <<>>, beta, 0)

\* ------------------------------------------------------------------------
\* One call of improvedPredict as a frame: pc is the position in the body,
\* the other fields are the locals of the same names (splits is the trace
\* of the backtest loop, fNext the rows of the rollout loop) and ret the
\* returned object, Null until the call
\* returns.
\* ------------------------------------------------------------------------
Some(v) == <<v>>
Val(o) == o[1]

Call(cs) ==
  [pc |-> "entry", path |-> "none", candles |-> cs,
   closes |-> <<>>, returns |-> <<>>,
   features |-> <<>>, targets |-> <<>>, beta |-> Null, r2 |-> Zero,
   splits |-> <<>>, errors |-> <<>>, backtestConf |-> Zero,
   lastCloses |-> <<>>, lastReturns |-> <<>>, fNext |-> <<>>,
   projection |-> <<>>, ret |-> Null]

Idle == [Call(<<>>) EXCEPT !.pc = "idle"]

\* { ...simple, confidence }
WithConfidence(simple, confidence) ==
  [nextPrice |-> simple.nextPrice,
   projectionLine |-> simple.projectionLine,
   confidence |-> confidence]

\* lines 142-147
ShortResult(cs) == WithConfidence(predict(Closes(cs)), ShortConfidence)

\* the singular return carrying the short-history confidence of line 146
\* where line 177 has 0.1
SingularResultShortConfidence(cs) ==
  WithConfidence(predict(Closes(cs)), ShortConfidence)

\* lines 174-178
SingularResult(cs) == WithConfidence(predict(Closes(cs)), SingularConfidence)

\* a training set whose loop starts at cutoff 25 where line 156 starts at 20
TrainingSetLate(f, closes, returns) ==
  [f EXCEPT !.pc = "fit",
            !.closes = closes, !.returns = returns,
            !.features = Arr([k \in 1..(Len(closes) - 26) |->
                                TrainRow(closes, returns, 24 + k)]),
            !.targets = Arr([k \in 1..(Len(closes) - 26) |->
                               At(returns, 24 + k)])]

\* lines 142-171: the short-history return, or the training set
TrainingSet(f, closes, returns) ==
  [f EXCEPT !.pc = "fit",
            !.closes = closes, !.returns = returns,
            !.features = Features(closes, returns),
            !.targets = Targets(closes, returns)]

EnterStep(f) ==
  IF Len(f.candles) < MinHistory
  THEN [f EXCEPT !.pc = "done", !.path = "short",
                 !.ret = Some(ShortResult(f.candles))]
  ELSE TrainingSet(f, Closes(f.candles), PctChanges(Closes(f.candles)))

\* a fit that goes straight to the rollout, leaving the backtest of lines
\* 187-243 out
FittedThenRollout(f, beta) ==
  IF beta = Null
  THEN [f EXCEPT !.pc = "done", !.path = "singular",
                 !.ret = Some(SingularResult(f.candles))]
  ELSE [f EXCEPT !.pc = "rollout", !.beta = beta,
                 !.r2 = RSquared(f.features, f.targets, beta)]

\* lines 173-185: the full-sample fit, the singular return, or r2
Fitted(f, beta) ==
  IF beta = Null
  THEN [f EXCEPT !.pc = "done", !.path = "singular",
                 !.ret = Some(SingularResult(f.candles))]
  ELSE [f EXCEPT !.pc = "backtest", !.beta = beta,
                 !.r2 = RSquared(f.features, f.targets, beta)]

FitStep(f) == Fitted(f, linearRidge(f.features, f.targets, Lambda))

\* lines 187-243
Scored(f, splits, errors) ==
  [f EXCEPT !.pc = "rollout", !.splits = splits, !.errors = errors,
            !.backtestConf = BacktestConf(errors)]

Backtested(f, splits) == Scored(f, splits, Errors(splits))

BacktestStep(f) == Backtested(f, Backtest(f.closes))

\* a rollout whose buffers are the arrays closes and returns themselves
\* (lastCloses = closes where line 248 has closes.slice()): the pushes of
\* lines 267-268 land in the originals
RolledAliased(f, finalConf, rolled) ==
  [f EXCEPT !.pc = "done", !.path = "regression",
            !.closes = rolled.lastCloses,
            !.returns = rolled.lastReturns,
            !.lastCloses = rolled.lastCloses,
            !.lastReturns = rolled.lastReturns,
            !.fNext = rolled.fNext,
            !.projection = rolled.projection,
            !.ret = Some([nextPrice |-> Last(rolled.projection),
                          projectionLine |-> rolled.projection,
                          confidence |-> finalConf])]

\* lines 245-271
Rolled(f, finalConf, rolled) ==
  [f EXCEPT !.pc = "done", !.path = "regression",
            !.lastCloses = rolled.lastCloses,
            !.lastReturns = rolled.lastReturns,
            !.fNext = rolled.fNext,
            !.projection = rolled.projection,
            !.ret = Some([nextPrice |-> Last(rolled.projection),
                          projectionLine |-> rolled.projection,
                          confidence |-> finalConf])]

RolloutStep(f) ==
  Rolled(f, FinalConf(f.backtestConf, f.r2),
         Rollout(f.closes, f.returns, f.beta))

Step(f) ==
  CASE f.pc = "entry"    -> EnterStep(f)
    [] f.pc = "fit"      -> FitStep(f)
    [] f.pc = "backtest" -> BacktestStep(f)
    [] f.pc = "rollout"  -> RolloutStep(f)

\* the frame when the call returns
RECURSIVE Finish(_)
Finish(f) == IF f.pc = "done" THEN f ELSE Finish(Step(f))

improvedPredict(cs) == Val(Finish(Call(cs)).ret)

\* ------------------------------------------------------------------------
\* fetchStockData (App.tsx 45-72).  The provider's reply is json: ok says
\* whether chart.result[0].indicators.quote[0] is present, timestamp and
\* close are the parallel arrays, a close is Null or Some(number).
\* ------------------------------------------------------------------------
\* new Date(ts * 1000).toISOString().split('T')[0]: the UTC calendar day of
\* the timestamp; the day number stands for the YYYY-MM-DD text, whose
\* order is the order of the days
DateOf(ts) == ts \div (60 * 60 * 24)

\* lines 64-68, one entry
Entry(json, i) == [date |-> DateOf(json.timestamp[i]), close |-> Val(json.close[i])]

\* lines 62-70: for (let i = 0; i < timestamps.length; i++) if (close != null) push
RECURSIVE Entries(_, _, _)
Entries(json, i, entries) ==
  IF i > Len(json.timestamp) THEN entries
  ELSE Entries(json, i + 1,
               IF json.close[i] # Null THEN Append(entries, Entry(json, i))
               ELSE entries)

\* Array.prototype.reverse
Reverse(arr) == [i \in 1..Len(arr) |-> arr[Len(arr) + 1 - i]]

\* line 71: return entries.reverse()
fetchStockData(json) == Reverse(Entries(json, 1, <<>>))

\* ------------------------------------------------------------------------
\* handleStockPrediction (App.tsx 395-441)
\* ------------------------------------------------------------------------
\* String.prototype.trim on a text of characters
RECURSIVE TrimStart(_)
TrimStart(t) == IF t # <<>> /\ Head(t) = " " THEN TrimStart(Tail(t)) ELSE t

RECURSIVE TrimEnd(_)
TrimEnd(t) ==
  IF t # <<>> /\ t[Len(t)] = " " THEN TrimEnd(SubSeq(t, 1, Len(t) - 1)) ELSE t

Trim(t) == TrimEnd(TrimStart(t))

\* String.prototype.toUpperCase
UpperChar(c) == CASE c = "a" -> "A" [] c = "b" -> "B" [] OTHER -> c
ToUpperCase(t) == [i \in 1..Len(t) |-> UpperChar(t[i])]

EnterTicker == "Please enter a stock ticker."
NoData      == "Could not fetch stock data."
BadReply    == "Could not fetch stock data from Yahoo Finance"
NetworkDown == "Network request failed"

\* line 437: the object handed to setResult
ResultOf(stockData, p) ==
  [nextPrice |-> p.nextPrice,
   currentPrice |-> stockData[Len(stockData)].close,
   projectionLine |-> p.projectionLine,
   confidence |-> p.confidence]

\* ------------------------------------------------------------------------
\* The inputs the model explores
\* ------------------------------------------------------------------------
MaxShort == 10
MaxExtra == 5
MaxCandles == 3
MaxAwaiting == 2
MaxSearching == 2

\* close of day i (from 0) of each history shape
ShapeClose(shape, i) ==
  CASE shape = "flat"  -> Num(100)
    [] shape = "ramp"  -> Num(100 + i)
    [] shape = "zig"   -> Num(<<2, 3, 2, 4, 3>>[(i % 5) + 1])
    [] shape = "swing" -> Num(<<1, 5, 1>>[(i % 3) + 1])
    [] shape = "big"   -> Num(1000000000)
    [] shape = "huge"  -> Dec(1, 200)
    [] shape = "hole"  -> IF i = 1 THEN Zero ELSE Num(100)
    [] shape = "cliff" -> IF i < 30 THEN Num(1000000000) ELSE Num(1010000000)

Shapes == {"flat", "ramp", "zig", "swing", "big", "huge", "hole", "cliff"}

History(n, shape) ==
  [i \in 1..n |-> [date |-> i, close |-> ShapeClose(shape, i - 1)]]

Histories ==
  {History(n, shape) :
     n \in (0..MaxShort) \cup ((MinHistory - 1)..(MinHistory + MaxExtra)),
     shape \in Shapes}

\* provider replies: one timestamp a day, ascending, each close missing or
\* one of two prices
ReplyCloses == {Null, Some(Num(100)), Some(Num(110))}

Reply(closes) ==
  [ok |-> TRUE,
   timestamp |-> [i \in 1..Len(closes) |-> (19000 + i) * (60 * 60 * 24) + 52200],
   close |-> closes]

Malformed == [ok |-> FALSE, timestamp |-> <<>>, close |-> <<>>]

Replies ==
  {Reply(c) : c \in UNION {[1..n -> ReplyCloses] : n \in 0..MaxCandles}}
    \cup {Malformed}

Texts == {<<>>, <<" ">>, <<"a">>, <<" ", "b">>}

\* quotes of the symbol search: a symbol with its names, either of which
\* the provider may leave out (the empty text)
Quotes ==
  << [symbol |-> <<"B">>, longname |-> <<>>, shortname |-> <<>>],
     [symbol |-> <<"A">>, longname |-> <<"x">>, shortname |-> <<"y">>] >>

\* replies of the symbol search: Null for a reply with no quotes field or a
\* fetch that fails, or Some(quotes)
SearchReplies == {Null, Some(<<>>), Some(SubSeq(Quotes, 2, 2)), Some(Quotes)}

\* a provider that answers a symbol the same way each time it is asked
Lookup(upper) == IF upper = <<"A">> THEN Some(SubSeq(Quotes, 2, 2)) ELSE Null
Feed(upper) ==
  IF upper = <<"A">> THEN Reply(<<Some(Num(100)), Some(Num(110))>>)
  ELSE Reply(<<Some(Num(110))>>)

\* ------------------------------------------------------------------------
\* State
\* ------------------------------------------------------------------------
VARIABLES
  frame,          \* the call of improvedPredict in progress or last returned
  calls,          \* invocations of handleStockPrediction in the order they
                  \* began: those suspended at an await, and the last one
                  \* begun even when it has returned
  stockData,      \* what fetchStockData last returned to the handler
  data,           \* useState: the charted closes, Null or Some(array)
  result,         \* useState: the forecast shown, Null or Some(object)
  error,          \* useState: the message shown, Null or Some(text)
  companyName,    \* useState: Null or Some(text)
  ticker,         \* useState: the text of the field
  suggestions,    \* useState: the suggestion list
  searchTimeout,  \* useRef: Null or Some(id of the timer last set)
  timers,         \* the debounce timers set and neither fired nor cleared,
                  \* each an id and the text of its keystroke
  searching,      \* the keywords of the symbol searches fired timers began,
                  \* awaiting their response
  dismissed       \* history: the list was emptied by clearing the field or by
                  \* starting a prediction, and nothing was typed since

typing == <<ticker, suggestions, searchTimeout, timers, searching, dismissed>>
shown == <<stockData, data, result, error, companyName>>
app == <<calls, shown, typing>>
vars == <<frame, app>>

AppInit ==
  /\ calls = <<>>
  /\ stockData = <<>>
  /\ data = Null
  /\ result = Null
  /\ error = Null
  /\ companyName = Null
  /\ ticker = <<>>
  /\ suggestions = <<>>
  /\ searchTimeout = Null
  /\ timers = {}
  /\ searching = <<>>
  /\ dismissed = FALSE

\* ---- improvedPredict, phase by phase, on a bounded set of histories ----
Init ==
  /\ frame \in {Call(cs) : cs \in Histories}
  /\ AppInit

Enter ==
  /\ frame.pc = "entry"
  /\ frame' = EnterStep(frame)
  /\ UNCHANGED app

Fit ==
  /\ frame.pc = "fit"
  /\ frame' = FitStep(frame)
  /\ UNCHANGED app

RunBacktest ==
  /\ frame.pc = "backtest"
  /\ frame' = BacktestStep(frame)
  /\ UNCHANGED app

RunRollout ==
  /\ frame.pc = "rollout"
  /\ frame' = RolloutStep(frame)
  /\ UNCHANGED app

Next == Enter \/ Fit \/ RunBacktest \/ RunRollout

Spec == Init /\ [][Next]_vars

\* improvedPredict is synchronous code: once called, its next statement
\* runs.  This is weak fairness of Next, with ENABLED <<Next>>_vars written
\* as what it is here: the call has not returned (every action's guard is
\* its frame.pc, and "done" is the one position that has no action).
FairSpec ==
  Spec /\ (([]<>(frame.pc = "done")) \/ ([]<><<Next>>_vars))

\* ---- the screen: handleStockPrediction over provider replies ----
InitApp ==
  /\ frame = Idle
  /\ AppInit

\* invocations of handleStockPrediction suspended at an await
awaiting == Len(SelectSeq(calls, LAMBDA c : c.pc # "done"))

\* a new invocation joins the invocations; one that has returned is kept
\* only while it is the last begun
Begun(upper, pc) ==
  (IF calls # <<>> /\ Last(calls).pc = "done"
   THEN SubSeq(calls, 1, Len(calls) - 1) ELSE calls)
    \o <<[upper |-> upper, pc |-> pc]>>

\* invocation i returns
Returns(i) ==
  IF i = Len(calls) THEN [calls EXCEPT ![i].pc = "done"]
  ELSE SubSeq(calls, 1, i - 1) \o SubSeq(calls, i + 1, Len(calls))

\* lines 274-289: the suggestions symbolSearch makes of the reply
symbolSearch(keywords, reply) ==
  IF keywords = <<>> \/ reply = Null THEN <<>>
  ELSE LET quotes == Val(reply)
       IN  [i \in 1..Len(quotes) |->
              [symbol |-> quotes[i].symbol,
               name |-> IF quotes[i].longname # <<>> THEN quotes[i].longname
                        ELSE IF quotes[i].shortname # <<>> THEN quotes[i].shortname
                        ELSE quotes[i].symbol]]

\* lines 396-407: up to the await of symbolSearch, for the text
\* (manualTicker ?? ticker); the handler leaves the field as its caller does
handleStockPrediction(text) ==
  LET upper == ToUpperCase(Trim(text))
  IN  /\ suggestions' = <<>>
      /\ dismissed' = TRUE
      /\ IF upper = <<>>
         THEN /\ error' = Some(EnterTicker)
              /\ calls' = Begun(upper, "done")
         ELSE /\ awaiting < MaxAwaiting
              /\ error' = Null
              /\ calls' = Begun(upper, "search")
      /\ UNCHANGED <<frame, stockData, data, result, companyName,
                     searchTimeout, timers, searching>>

\* lines 516-520: a suggestion is pressed
PressSuggestion(s) ==
  /\ ticker' = s.symbol
  /\ handleStockPrediction(s.symbol)

\* lines 407-429: symbolSearch has answered invocation i, which names the
\* company and calls fetchStockData
NameResolves(i, reply) ==
  /\ calls[i].pc = "search"
  /\ LET matches == symbolSearch(calls[i].upper, reply)
     IN  companyName' =
           Some(IF matches # <<>> /\ matches[1].name # <<>>
                THEN matches[1].name ELSE calls[i].upper)
  /\ calls' = [calls EXCEPT ![i].pc = "fetch"]
  /\ UNCHANGED <<frame, stockData, data, result, error, typing>>

\* line 49 rejects (no network): the catch of line 438
FetchFails(i) ==
  /\ calls[i].pc = "fetch"
  /\ calls' = Returns(i)
  /\ error' = Some(NetworkDown)
  /\ UNCHANGED <<frame, stockData, data, result, companyName, typing>>

\* lines 50-71 and 429-440: the reply arrives and the handler resumes
\* lines 435-437, improvedPredict having returned the frame done
Show(fetched, done) ==
  /\ frame' = done
  /\ data' = Some(Closes(fetched))
  /\ result' = Some(ResultOf(fetched, Val(done.ret)))
  /\ UNCHANGED error

\* lines 429-437
Resume(fetched) ==
  /\ stockData' = fetched
  /\ IF Len(fetched) = 0
     THEN /\ error' = Some(NoData)
          /\ UNCHANGED <<frame, data, result>>
     ELSE Show(fetched, Finish(Call(fetched)))

FetchResolves(i, json) ==
  /\ calls[i].pc = "fetch"
  /\ calls' = Returns(i)
  /\ IF ~json.ok
     THEN /\ error' = Some(BadReply)
          /\ UNCHANGED <<frame, stockData, data, result>>
     ELSE Resume(fetchStockData(json))
  /\ UNCHANGED <<companyName, typing>>

NextApp ==
  \/ \E text \in Texts : handleStockPrediction(text) /\ UNCHANGED ticker
  \/ \E i \in 1..Len(calls) : \E reply \in SearchReplies : NameResolves(i, reply)
  \/ \E i \in 1..Len(calls) : FetchFails(i)
  \/ \E i \in 1..Len(calls) : \E json \in Replies : FetchResolves(i, json)

SpecApp == InitApp /\ [][NextApp]_vars

\* ---- the search box: keystrokes, the debounce timer, the suggestions ----
\* lines 469-484; clearTimeout drops the timer the ref names, and
\* setTimeout returns an id no timer has
onChangeText(text) ==
  LET cleared == IF searchTimeout # Null
                 THEN {t \in timers : t.id # Val(searchTimeout)} ELSE timers
      id == CHOOSE n \in 1..(Cardinality(timers) + 2) :
              (\A t \in timers : t.id # n) /\ Some(n) # searchTimeout
  IN  /\ ticker' = text
      /\ IF text = <<>>
         THEN /\ searchTimeout' = Null
              /\ timers' = cleared
              /\ suggestions' = <<>>
              /\ dismissed' = TRUE
         ELSE /\ searchTimeout' = Some(id)
              /\ timers' = cleared \cup {[id |-> id, text |-> text]}
              /\ dismissed' = FALSE
              /\ UNCHANGED suggestions
      /\ UNCHANGED <<frame, calls, shown, searching>>

\* lines 480-481: a timer fires and its callback calls symbolSearch with
\* the text of its keystroke
TimerFires(t) ==
  /\ t \in timers
  /\ Len(searching) < MaxSearching
  /\ timers' = timers \ {t}
  /\ searching' = Append(searching, t.text)
  /\ UNCHANGED <<frame, calls, shown, ticker, suggestions, searchTimeout, dismissed>>

\* lines 481-482: search k of the fired timers is answered
SearchResponds(k, reply) ==
  /\ searching' = SubSeq(searching, 1, k - 1) \o SubSeq(searching, k + 1, Len(searching))
  /\ suggestions' = Slice(symbolSearch(searching[k], reply), 0, 6)
  /\ UNCHANGED <<frame, calls, shown, ticker, searchTimeout, timers, dismissed>>

\* the screen in use, the provider answering each symbol one way
NextUi ==
  \/ \E text \in Texts : onChangeText(text)
  \/ \E t \in timers : TimerFires(t)
  \/ \E k \in 1..Len(searching) : \E reply \in SearchReplies : SearchResponds(k, reply)
  \/ handleStockPrediction(ticker) /\ UNCHANGED ticker
  \/ \E k \in 1..Len(suggestions) : PressSuggestion(suggestions[k])
  \/ \E i \in 1..Len(calls) : NameResolves(i, Lookup(calls[i].upper))
  \/ \E i \in 1..Len(calls) : FetchResolves(i, Feed(calls[i].upper))

SpecUi == InitApp /\ [][NextUi]_vars

\* lines 535-618: what the render shows below the search box:
\* error ? <error text> : data && result ? <result card> : null
Screen ==
  IF error # Null THEN "error"
  ELSE IF data # Null /\ result # Null THEN "result"
  ELSE "empty"

\* line 446: Array(5), the room the chart leaves after the history
ChartPad == 5

\* lines 443-467: the chart's two datasets; historicalData is Null or
\* Some(array), projectionLine likewise.  A point is Null or Some(price);
\* historicalData[-1] of an empty array is undefined, a point of no value.
getChartData(historicalData, projectionLine) ==
  LET Blank(n) == [i \in 1..n |-> Null]
      Points(arr) == [i \in 1..Len(arr) |-> Some(arr[i])]
  IN  IF historicalData = Null
      THEN [labels |-> <<"">>, datasets |-> << <<Some(Zero)>>, <<Some(Zero)>> >>]
      ELSE LET h == Val(historicalData)
               historicalDataset == Points(h) \o Blank(ChartPad)
               projectionDataset ==
                 Blank(Len(h))
                   \o (IF h = <<>> THEN <<Null>> ELSE <<Some(Last(h))>>)
                   \o Points(SliceFrom(IF projectionLine = Null THEN <<>>
                                       ELSE Val(projectionLine), 1))
           IN  [labels |-> [i \in 1..Len(historicalDataset) |-> ""],
                datasets |-> <<historicalDataset, projectionDataset>>]

\* ------------------------------------------------------------------------
\* Properties
\* ------------------------------------------------------------------------
Returned == frame.pc = "done"
Ret == Val(frame.ret)
InputCloses == Closes(frame.candles)
AllPositive(closes) == \A i \in 1..Len(closes) : Gt(closes[i], Zero)
InUnitInterval(c) == IsFin(c) /\ ~Lt(c, Zero) /\ ~Gt(c, One)

\* C1: whenever improvedPredict has returned, on whichever path, the
\* returned confidence is a number c with 0 <= c <= 1.
C1_ConfidenceInUnitInterval ==
  Returned => InUnitInterval(Ret.confidence)

\* C2: a history of fewer than 2 candles, or with a non-positive close, is
\* rejected: improvedPredict returns no forecast for it, so a forecast
\* exists only for a history of at least 2 candles with every close > 0.
C2_InvalidInputRejected ==
  frame.ret # Null =>
    /\ Len(frame.candles) >= 2
    /\ AllPositive(InputCloses)

\* C3: for 2 to 29 candles improvedPredict returns on the fallback path
\* with no training set, fit, backtest or rollout; the confidence is exactly
\* 0.2; projectionLine has exactly 5 values, the first being the last close
\* compounded once by the mean percent change of the whole close sequence
\* and each later one the previous value compounded again, so the seed (the
\* last close itself) is not in it.
C3_ShortHistoryFallback ==
  (Returned /\ Len(frame.candles) \in 2..(MinHistory - 1)) =>
    LET closes == InputCloses
        n      == Len(closes)
        pct    == [i \in 1..(n - 1) |->
                     Mul(Div(Sub(closes[i + 1], closes[i]), closes[i]), Hundred)]
        avgReturn == Div(Sum(pct), Num(n - 1))
        growth == Add(One, Div(avgReturn, Hundred))
        p      == Ret.projectionLine
    IN  /\ frame.path = "short"
        /\ frame.features = <<>> /\ frame.targets = <<>>
        /\ frame.beta = Null
        /\ frame.splits = <<>> /\ frame.errors = <<>>
        /\ frame.projection = <<>>
        /\ Ret.confidence = Dec(2, -1)
        /\ Len(p) = 5
        /\ p[1] = Mul(closes[n], growth)
        /\ \A k \in 2..5 : p[k] = Mul(p[k - 1], growth)
        /\ Ret.nextPrice = p[5]

\* Scenario A: ten closes 100..109 returned on the fallback path.
C3_Witness ==
  /\ Returned
  /\ frame.candles = History(10, "ramp")
  /\ frame.path = "short"
  /\ Ret.confidence = Dec(2, -1)
  /\ Len(Ret.projectionLine) = 5
  /\ Gt(Ret.projectionLine[1], Num(109))

\* C4: for at least 30 candles, whenever the full-sample ridge fit returns
\* null, improvedPredict returns (it does not throw) the fallback forecast
\* with confidence exactly 0.1 and a projectionLine of 5 elements, without
\* backtest or rollout.
C4_SingularFallback ==
  (/\ Returned
   /\ Len(frame.candles) >= MinHistory
   /\ linearRidge(frame.features, frame.targets, Lambda) = Null) =>
    /\ frame.path = "singular"
    /\ frame.ret # Null
    /\ Ret.confidence = Dec(1, -1)
    /\ Len(Ret.projectionLine) = 5
    /\ Ret.nextPrice = Ret.projectionLine[5]
    /\ frame.splits = <<>>
    /\ frame.projection = <<>>

\* A history of 30 or more candles whose fit was singular has returned.
C4_Witness ==
  /\ Returned
  /\ Len(frame.candles) >= MinHistory
  /\ frame.path = "singular"
  /\ linearRidge(frame.features, frame.targets, Lambda) = Null
  /\ Ret.confidence = Dec(1, -1)

\* C5: every forecast improvedPredict returns, on any path, has a
\* projectionLine of exactly 5 elements and a nextPrice equal to the last
\* of them.
C5_FiveElementProjection ==
  Returned =>
    /\ Len(Ret.projectionLine) = 5
    /\ Ret.nextPrice = Ret.projectionLine[5]

\* closes with every value after index i (from 0) replaced by v
Later(closes, i, v) ==
  Arr([k \in 1..Len(closes) |-> IF k - 1 > i THEN v ELSE closes[k]])

Decoys == {Num(1), Num(977)}

\* C6: no look-ahead.  The training row of cutoff i is the row the code
\* builds from a history that agrees with the real one up to index i and
\* differs everywhere after it, and its target is the percent change from
\* closes[i] to closes[i+1].  In the backtest, the refit of split s and the
\* price it predicts are those obtained from a history that agrees with the
\* real one up to index s only, and the recorded error compares that
\* prediction with closes[s+1].
C6_NoLookAhead ==
  (Returned /\ Len(frame.candles) >= MinHistory) =>
    LET closes == InputCloses
        n      == Len(closes)
    IN  /\ Len(frame.features) = n - 1 - FirstCutoff
        /\ Len(frame.targets) = n - 1 - FirstCutoff
        /\ \A i \in Cutoffs(closes) :
             /\ \A v \in Decoys :
                  LET later == Later(closes, i, v)
                  IN  frame.features[i - FirstCutoff + 1]
                        = TrainRow(later, PctChanges(later), i)
             /\ frame.targets[i - FirstCutoff + 1]
                  = Mul(Div(Sub(closes[i + 2], closes[i + 1]), closes[i + 1]),
                        Hundred)
        /\ \A r \in 1..Len(frame.splits) :
             LET rec == frame.splits[r]
                 s   == rec.split
             IN  /\ \A v \in Decoys :
                       LET later == Later(closes, s, v)
                       IN  /\ rec.betaT = SplitFit(later, s)
                           /\ rec.betaT # Null =>
                                rec.predictedPrice
                                  = Some(SplitPrediction(later, s, rec.betaT))
                 /\ \A j \in 1..Len(rec.errors) :
                       rec.errors[j]
                         = Abs(Div(Sub(Val(rec.predictedPrice), closes[s + 2]),
                                   closes[s + 2]))

\* A varying history long enough for two backtest splits has returned on
\* the regression path with an error recorded at each split.
C6_Witness ==
  /\ Returned
  /\ frame.candles = History(35, "zig")
  /\ frame.path = "regression"
  /\ Len(frame.features) = 14
  /\ Len(frame.splits) = 2
  /\ Len(frame.errors) = 2

\* C7: for a reply whose timestamps ascend, the candles fetchStockData
\* returns to handleStockPrediction are ascending by date, oldest first and
\* newest last.
C7_AscendingByDate ==
  \A i, j \in 1..Len(stockData) :
    i < j => stockData[i].date < stockData[j].date

\* C9: no value improvedPredict returns (nextPrice, an element of
\* projectionLine, confidence) is NaN or infinite.
C9_FiniteOutputs ==
  Returned =>
    /\ IsFin(Ret.nextPrice)
    /\ \A k \in 1..Len(Ret.projectionLine) : IsFin(Ret.projectionLine[k])
    /\ IsFin(Ret.confidence)

\* C10: for a history of at least 30 strictly positive closes that reaches
\* the rollout, each of the 5 projected prices is strictly positive.
C10_PositiveRollout ==
  (Returned /\ frame.path = "regression" /\ AllPositive(InputCloses)) =>
    \A k \in 1..Len(frame.projection) : Gt(frame.projection[k], Zero)

\* C11: from the start of handleStockPrediction until its fetch settles the
\* screen does not show a result (the previous request's), and whenever an
\* error message is set (fetch failed, empty ticker, no data) the screen
\* shows the error and no result.
C11_LoadingAndErrorFeedback ==
  /\ awaiting > 0 => Screen # "result"
  /\ error # Null => Screen = "error"

\* the full-sample fit has succeeded and the backtest loop has ended
BacktestDone == frame.pc \in {"rollout", "done"} /\ frame.beta # Null

\* the percent change from a to b, as the claims write it
PercentChange(a, b) == Mul(Div(Sub(b, a), a), Hundred)

\* C12: for n >= 30 closes the backtest evaluates exactly the splits
\* s = 30, 33, 36, ... with s <= n - 2, in that order.  Split s trains on
\* one row per cutoff 20..s-1 (the row's return is the change into the
\* cutoff day, its target the change out of it) and records at most one
\* error, |predicted - closes[s+1]| / closes[s+1].  A split whose refit is
\* singular, or with fewer than 5 rows, records no error; the loop goes on
\* to the next split and the call still returns on the regression path.
C12_BacktestSplits ==
  BacktestDone =>
    LET closes == InputCloses
        n      == Len(closes)
        count  == IF n - 2 < 30 THEN 0 ELSE ((n - 2 - 30) \div 3) + 1
    IN  /\ n >= 30
        /\ Len(frame.splits) = count
        /\ \A r \in 1..count :
             LET rec == frame.splits[r]
                 s   == 30 + 3 * (r - 1)
             IN  /\ rec.split = s
                 /\ Len(rec.trFeatures) = s - 20
                 /\ Len(rec.trTargets) = s - 20
                 /\ \A k \in 1..(s - 20) :
                      /\ rec.trFeatures[k][2]
                           = PercentChange(closes[19 + k], closes[20 + k])
                      /\ rec.trTargets[k]
                           = PercentChange(closes[20 + k], closes[21 + k])
                 /\ rec.betaT = (IF s - 20 < 5 THEN Null
                                 ELSE linearRidge(rec.trFeatures, rec.trTargets,
                                                  Dec(1, -2)))
                 /\ Len(rec.errors) <= 1
                 /\ rec.betaT = Null => rec.errors = <<>>
                 /\ \A j \in 1..Len(rec.errors) :
                      rec.errors[j]
                        = Div(Abs(Sub(Val(rec.predictedPrice), closes[s + 2])),
                              closes[s + 2])
        /\ Len(frame.errors) <= count
        /\ Returned => frame.path = "regression"

\* A history whose first split is skipped (singular refit) and whose second
\* split records an error has returned on the regression path.
C12_Witness ==
  /\ Returned
  /\ frame.candles = History(35, "cliff")
  /\ frame.path = "regression"
  /\ Len(frame.splits) = 2
  /\ frame.splits[1].betaT = Null /\ frame.splits[1].errors = <<>>
  /\ frame.splits[2].betaT # Null /\ Len(frame.splits[2].errors) = 1
  /\ Len(frame.errors) = 1

\* a design matrix and its targets as the ridge solver must receive them
WellShaped(X, y) ==
  /\ Len(X) >= 8
  /\ Len(y) = Len(X)
  /\ \A k \in 1..Len(X) : Len(X[k]) = 8

\* C13: the full-sample fit and every backtest refit hand linearRidge a
\* matrix of exactly 8 columns, one target per row, and at least 8 rows; so
\* no split ever has fewer than 5 training rows.
C13_RidgeInputShape ==
  /\ (frame.pc \in {"fit", "backtest", "rollout"} \/ frame.path \in {"singular", "regression"})
       => WellShaped(frame.features, frame.targets)
  /\ \A r \in 1..Len(frame.splits) :
       /\ WellShaped(frame.splits[r].trFeatures, frame.splits[r].trTargets)
       /\ ~(Len(frame.splits[r].trFeatures) < 5)

\* The shortest history with a backtest split: 32 closes, 11 full-sample
\* rows, and one refit on 10 rows.
C13_Witness ==
  /\ frame.pc = "rollout"
  /\ Len(frame.candles) = 32
  /\ Len(frame.features) = 11
  /\ Len(frame.splits) = 1
  /\ Len(frame.splits[1].trFeatures) = 10
  /\ frame.splits[1].betaT # Null

\* clamp(x, lo, hi)
Clamp(x, lo, hi) == IF Lt(x, lo) THEN lo ELSE IF Gt(x, hi) THEN hi ELSE x

\* the orders in which n recorded errors can be listed
Orders(n) == {p \in [1..n -> 1..n] : \A i, j \in 1..n : p[i] = p[j] => i = j}

\* the mean of the errors listed in order p
MeanIn(errors, p) ==
  Div(Sum(Arr([k \in 1..Len(errors) |-> errors[p[k]]])), Num(Len(errors)))

SsRes(features, targets, beta) ==
  SqErrAcc(targets, Arr([k \in 1..Len(features) |-> Dot(features[k], beta)]),
           1, Zero)

SsTot(targets) ==
  SqErrAcc(targets,
           Arr([k \in 1..Len(targets) |-> Div(Sum(targets), Num(Len(targets)))]),
           1, Zero)

\* x floored at lo
Floored(x, lo) == IF Lt(x, lo) THEN lo ELSE x

\* C15: on the regression path the confidence returned is
\* clamp(0.8*backtestConf + 0.2*clamp(R2, 0, 1), 0, 1) with
\* R2 = 1 - SSres/SStot computed from the full-sample predictions and
\* targets, SStot floored at 1, so that the denominator is never below 1
\* and the fit adds at most 0.2 to the confidence.
C15_ConfidenceFormula ==
  (Returned /\ frame.path = "regression") =>
    LET ssRes == SsRes(frame.features, frame.targets, frame.beta)
        denom == Floored(SsTot(frame.targets), One)
        R2    == Sub(One, Div(ssRes, denom))
    IN  /\ frame.r2 = R2
        /\ Ret.confidence
             = Clamp(Add(Mul(Dec(8, -1), frame.backtestConf),
                         Mul(Dec(2, -1), Clamp(R2, Zero, One))), Zero, One)
        /\ ~Gt(Sub(Ret.confidence, Mul(Dec(8, -1), frame.backtestConf)),
               Dec(2, -1))

\* C16: in every backtest split the volatility component (index 6) of
\* every feature vector built, the training rows of cutoffs 20..s-1 and
\* the prediction row of cutoff s, is the placeholder value 0.
C16_BacktestVolatilityPlaceholder ==
  \A r \in 1..Len(frame.splits) :
    LET rec == frame.splits[r]
    IN  /\ \A k \in 1..Len(rec.trFeatures) : rec.trFeatures[k][7] = Zero
        /\ rec.fNext # <<>> => rec.fNext[7] = Zero

\* the returned call took the fallback of lines 142-147: no fit, no
\* backtest, no rollout
TookShortPath ==
  /\ frame.path = "short"
  /\ frame.features = <<>> /\ frame.beta = Null
  /\ frame.splits = <<>> /\ frame.errors = <<>>
  /\ frame.fNext = <<>> /\ frame.projection = <<>>
  /\ Ret.confidence = Dec(2, -1)

\* the returned call took the fallback of lines 174-178: a fit, no
\* backtest, no rollout
TookSingularPath ==
  /\ frame.path = "singular"
  /\ frame.features # <<>> /\ frame.beta = Null
  /\ frame.splits = <<>> /\ frame.errors = <<>>
  /\ frame.fNext = <<>> /\ frame.projection = <<>>
  /\ Ret.confidence = Dec(1, -1)

\* the returned call fitted, backtested and rolled out
TookRegressionPath ==
  /\ frame.path = "regression"
  /\ frame.features # <<>> /\ frame.beta # Null
  /\ Len(frame.fNext) = 5 /\ Len(frame.projection) = 5
  /\ Ret.projectionLine = frame.projection

\* when the call has returned: which path the input selects, and that the
\* path taken is that one
OnePath ==
  Returned =>
    LET short    == Len(frame.candles) < 30
        singular == /\ ~short
                    /\ linearRidge(frame.features, frame.targets, Dec(1, -2)) = Null
    IN  /\ frame.ret # Null
        /\ short => TookShortPath
        /\ singular => TookSingularPath
        /\ (~short /\ ~singular) => TookRegressionPath

\* the phases in order: the backtest starts only from a fit that succeeded,
\* splits are evaluated only by the backtest, the rollout starts only when
\* the backtest has ended, and prices are projected only by the rollout
InOrder ==
  /\ frame'.pc = "backtest" => (frame.pc = "fit" /\ frame'.beta # Null)
  /\ frame'.splits # frame.splits => frame.pc = "backtest"
  /\ frame'.pc = "rollout" =>
       (frame.pc = "backtest" /\ frame'.errors = Errors(frame'.splits))
  /\ frame'.projection # frame.projection =>
       (frame.pc = "rollout" /\ frame'.pc = "done")

\* C17: every call of improvedPredict returns a result, by exactly one of
\* three paths: fewer than 30 candles, the fallback with no fit, backtest
\* or rollout; a singular full-sample fit, the fallback with no backtest or
\* rollout; otherwise the fit, then the backtest, then the rollout.  The
\* backtest never runs before the fit has succeeded, nor the rollout before
\* the backtest has ended.
C17_ThreePaths ==
  /\ []OnePath
  /\ [][InOrder]_vars
  /\ <>Returned

\* A call with two backtest splits has returned on the regression path.
C17_Witness ==
  /\ Returned
  /\ TookRegressionPath
  /\ Len(frame.splits) = 2
  /\ Ret.nextPrice = frame.projection[5]

\* C18: the rollout makes exactly 5 iterations.  Step k builds its feature
\* row from the original closes and returns extended by the k-1 prices and
\* returns projected before it, and emits (last rolling close) times
\* (1 + predicted return / 100).  The rolling buffers are copies: when the
\* call returns, the candles, closes and returns are what they were.
C18_RolloutBuffers ==
  (Returned /\ frame.path = "regression") =>
    LET closes  == InputCloses
        n       == Len(closes)
        returns == [i \in 1..(n - 1) |-> PercentChange(closes[i], closes[i + 1])]
        p       == frame.projection
    IN  /\ Len(p) = 5
        /\ Len(frame.fNext) = 5
        /\ frame.closes = closes
        /\ frame.returns = returns
        /\ frame.lastCloses = closes \o p
        /\ Len(frame.lastReturns) = n + 4
        /\ SubSeq(frame.lastReturns, 1, n - 1) = returns
        /\ \A k \in 1..5 :
             LET lc == SubSeq(frame.lastCloses, 1, n + k - 1)
                 lr == SubSeq(frame.lastReturns, 1, n + k - 2)
                 predReturn == frame.lastReturns[n + k - 1]
             IN  /\ frame.fNext[k] = RolloutRow(lc, lr)
                 /\ predReturn = Dot(frame.fNext[k], frame.beta)
                 /\ p[k] = Mul(lc[n + k - 1], Add(One, Div(predReturn, Hundred)))
        /\ Ret.projectionLine = p

\* Thirty closes rolled out: five prices pushed on a copy that is now 35
\* long, the 30 closes of the call left as they were.
C18_Witness ==
  /\ Returned
  /\ frame.path = "regression"
  /\ Len(frame.candles) = 30
  /\ Len(frame.closes) = 30
  /\ Len(frame.lastCloses) = 35
  /\ frame.lastCloses[31] = frame.projection[1]
  /\ frame.lastCloses[35] = Ret.nextPrice

\* every entry of the matrix is a finite number
AllFinite(X) == \A k \in 1..Len(X) : \A j \in 1..Len(X[k]) : IsFin(X[k][j])

\* C19: for a design matrix of finite entries with 8 columns and at least
\* 8 rows, and lambda = 1e-2, linearRidge never returns Singular (every
\* pivot invertMatrix selects has magnitude >= 1e-12): neither the
\* full-sample fit nor any backtest refit on such a matrix is null.
C19_RidgeNeverSingular ==
  /\ (/\ frame.pc \in {"backtest", "rollout", "done"}
      /\ WellShaped(frame.features, frame.targets)
      /\ AllFinite(frame.features))
       => linearRidge(frame.features, frame.targets, Dec(1, -2)) # Null
  /\ \A r \in 1..Len(frame.splits) :
       (/\ WellShaped(frame.splits[r].trFeatures, frame.splits[r].trTargets)
        /\ AllFinite(frame.splits[r].trFeatures))
         => frame.splits[r].betaT # Null

\* C20: the feature row of the first rollout step (built before any
\* projected price is appended) is the row the training construction of
\* lines 157-168 builds for cutoff i = n - 1; in particular both take the
\* volatility over the same trailing returns.
C20_FirstRolloutRowIsTrainRow ==
  (frame.pc = "done" /\ frame.path = "regression")
    => frame.fNext[1] = TrainRow(frame.closes, frame.returns, Len(frame.closes) - 1)

\* C23: for charted data of length L and a result whose projectionLine has
\* 5 elements, getChartData returns two datasets of length L + 5 each, and
\* the projection dataset holds the 5 elements of projectionLine, in order,
\* at the 5 positions that follow the last historical point.
C23_ChartHoldsProjection ==
  (data # Null /\ result # Null /\ Len(Val(result).projectionLine) = 5) =>
    LET L == Len(Val(data))
        chart == getChartData(data, Some(Val(result).projectionLine))
    IN  /\ Len(chart.datasets[1]) = L + 5
        /\ Len(chart.datasets[2]) = L + 5
        /\ \A k \in 1..5 :
             chart.datasets[2][L + k] = Some(Val(result).projectionLine[k])

\* C21: under any interleaving of keystrokes, timer firings and search
\* responses, at most one debounce timer is pending, and once the field
\* has been cleared or a prediction started the suggestion list stays
\* empty until the user types again.
C21_SuggestionsStayDismissed ==
  /\ Cardinality(timers) <= 1
  /\ dismissed => suggestions = <<>>

\* what the screen shows of a request for the symbol upper, once answered
\* by the provider of Lookup and Feed
ShowsRequest(upper) ==
  LET fetched == fetchStockData(Feed(upper))
      matches == symbolSearch(upper, Lookup(upper))
  IN  /\ error = Null
      /\ data = Some(Closes(fetched))
      /\ result = Some(ResultOf(fetched, improvedPredict(fetched)))
      /\ companyName = Some(IF matches # <<>> THEN matches[1].name ELSE upper)

\* C22: when requests overlap and complete in any order, the data and the
\* result shown come from one request, and once every request has
\* completed the data, result, company name and error shown are those of
\* the request begun last.
C22_LatestRequestWins ==
  /\ (data # Null /\ result # Null) =>
       \E upper \in {<<"A">>, <<"B">>} :
         LET fetched == fetchStockData(Feed(upper))
         IN  /\ data = Some(Closes(fetched))
             /\ result = Some(ResultOf(fetched, improvedPredict(fetched)))
  /\ (calls # <<>> /\ awaiting = 0) =>
       IF Last(calls).upper = <<>> THEN error = Some(EnterTicker)
       ELSE ShowsRequest(Last(calls).upper)

====
